---- MODULE Spec2Model ----
(***************************************************************************)
(* Order intake backend of MATex-Shoes: POST /api/place-order (the Order   *)
(* Handler), the db.json document it reads and rewrites, the mail          *)
(* transporter it awaits, and the json-server router mounted on the same   *)
(* document.  One action is one run-to-completion step of the Node event   *)
(* loop: the handler runs synchronously up to `await sendMail`, and after  *)
(* the mail promise settles it runs synchronously to the response.         *)
(***************************************************************************)
EXTENDS Integers, Sequences, FiniteSets, TLC

\* ------------------------------------------------------------- bounds
MaxReq == 2          \* requests received in one run
NumProducts == 2     \* products (db.shoes) in the initial document
MaxClock == 2        \* last millisecond the clock reaches

Requests == 1..MaxReq
ProductIds == 1..NumProducts
\* ids a client may list in soldProducts: the catalogue's and one unknown id
SoldIds == 1..(NumProducts + 1)
\* the soldProducts arrays a client sends
SoldSets ==
  {{}} \cup {{i} : i \in SoldIds} \cup {ProductIds} \cup {{1, NumProducts + 1}}
\* isSoldOut of a product: true, false, or the key is missing (undefined)
SoldFlags == <<"false", "undef", "true">>

VARIABLES
  now,        \* Date.now(): the millisecond clock
  file,       \* content of ./db.json
  routerDb,   \* the router's in-memory copy of the document (lowdb state)
  nreq,       \* number of requests received so far
  body,       \* req.body of each request in flight
  pc,         \* where each request's handler is: new, awaitMail, done
  mail,       \* the sendMail promise: none, notbuilt, pending, ok, failed, hung
  status,     \* HTTP status sent (0: none yet)
  respId,     \* orderId of the response: <<>> or <<id>>
  responses,  \* number of responses sent for the request
  mailCalls,  \* number of transporter.sendMail calls of the request
  writes,     \* number of fs.writeFileSync calls of the request
  trace,      \* the phases the request went through, in order
  clobbered,  \* requests answered 200 before a later router or torn write
  ev          \* the handler or router step just taken, when the last step was one

vars == <<now, file, routerDb, nreq, body, pc, mail, status, respId,
          responses, mailCalls, writes, trace, clobbered, ev>>

\* ------------------------------------------------------------- documents
\* A product of db.shoes: `...shoe` keeps every field, modelled by name.
Product(i, f, n) == [id |-> i, isSoldOut |-> f, name |-> n]

\* db.json: parsable or not; the shoes and orders keys may be missing.
Doc(hs, s, ho, o) ==
  [parsable |-> TRUE, hasShoes |-> hs, shoes |-> s, hasOrders |-> ho, orders |-> o]

\* What a torn write leaves behind: a prefix of the JSON text, which
\* JSON.parse rejects.
Corrupt ==
  [parsable |-> FALSE, hasShoes |-> FALSE, shoes |-> <<>>, hasOrders |-> FALSE,
   orders |-> <<>>]

\* req.body with orderDetails od and soldProducts sp, either possibly missing
Body(hasOD, od, hasSP, sp) == [hasOD |-> hasOD, od |-> od, hasSP |-> hasSP, sp |-> sp]

\* new Date().toISOString()
ISOString(t) == [iso |-> t]

\* orderDetails: an id key the client may have put in, the items array (or
\* none), and the customer fields (modelled by name); no orderDate key
OD(id, hasItems, name) ==
  [id |-> id, orderDate |-> <<>>, hasItems |-> hasItems, name |-> name]

\* orderDetails with an orderDate key put in by the client
WithDate(od, d) == [od EXCEPT !.orderDate = <<d>>]

NoOD == OD(<<>>, FALSE, "-")
NoBody == Body(FALSE, NoOD, FALSE, {})

\* The request bodies a client may send.
Bodies ==
  { Body(TRUE, OD(<<>>, TRUE, "A"), TRUE, s) : s \in SoldSets }
  \cup { Body(TRUE, OD(<<1>>, TRUE, "B"), TRUE, {1}),
         Body(TRUE, WithDate(OD(<<>>, TRUE, "B"), ISOString(0)), TRUE, {1}),
         Body(TRUE, OD(<<>>, FALSE, "B"), TRUE, {2}),
         Body(TRUE, OD(<<>>, TRUE, "A"), FALSE, {}),
         Body(FALSE, NoOD, TRUE, {1}),
         NoBody }

\* ------------------------------------------------------------- handler
\* Valid with && for ||: only a body that lacks both fields is rejected.
ValidEitherPresent(b) == b.hasOD \/ b.hasSP

\* if (!orderDetails || !soldProducts) return 400
Valid(b) == b.hasOD /\ b.hasSP

\* BuildFails for a message builder that copes with a missing items array.
BuildNeverFails(od) == FALSE

\* BuildFails as if building the message always threw.
BuildAlwaysFails(od) == TRUE

\* orderDetails.items.map(...) throws a TypeError when items is missing
BuildFails(od) == ~od.hasItems

\* { id: Date.now(), orderDate: new Date().toISOString(), ...orderDetails }:
\* the spread comes last, so a key of orderDetails replaces the stamped one.
NewOrder(od, t) ==
  [id |-> IF od.id # <<>> THEN od.id ELSE <<t>>,
   orderDate |-> IF od.orderDate # <<>> THEN od.orderDate[1] ELSE ISOString(t),
   name |-> od.name,
   hasItems |-> od.hasItems]

\* MarkSold as an upsert: a listed id that matches no product gets a new,
\* sold-out product.
MarkSoldCreates(shoes, sold) ==
  LET marked == [i \in 1..Len(shoes) |->
                   [shoes[i] EXCEPT !.isSoldOut =
                      IF shoes[i].id \in sold THEN "true" ELSE shoes[i].isSoldOut]]
      unknown == sold \ {shoes[i].id : i \in 1..Len(shoes)}
  IN  IF unknown = {} THEN marked
      ELSE Append(marked, Product(CHOOSE u \in unknown : TRUE, "true", "n0"))

\* MarkSold flipping the flag of a listed product instead of setting it.
MarkSoldToggles(shoes, sold) ==
  [i \in 1..Len(shoes) |->
     [shoes[i] EXCEPT !.isSoldOut =
        IF shoes[i].id \in sold
        THEN (IF shoes[i].isSoldOut = "true" THEN "false" ELSE "true")
        ELSE shoes[i].isSoldOut]]

\* MarkSold without the ternary's else branch: isSoldOut becomes the result of
\* includes(), so an unlisted product is put back on sale.
MarkSoldOverwrites(shoes, sold) ==
  [i \in 1..Len(shoes) |->
     [shoes[i] EXCEPT !.isSoldOut = IF shoes[i].id \in sold THEN "true" ELSE "false"]]

\* db.shoes.map(shoe => ({...shoe, isSoldOut: sold.includes(shoe.id) ? true : shoe.isSoldOut}))
MarkSold(shoes, sold) ==
  [i \in 1..Len(shoes) |->
     [shoes[i] EXCEPT !.isSoldOut =
        IF shoes[i].id \in sold THEN "true" ELSE shoes[i].isSoldOut]]

\* ReadStore answering from a copy loaded at start-up instead of the file.
ReadStoreCached(f) == routerDb

\* JSON.parse(fs.readFileSync(dbPath, 'utf8'))
ReadStore(f) == f

\* UpdatedDb without the step that creates a missing orders collection.
UpdatedDbKeepsNoOrders(db, b, t) ==
  [db EXCEPT !.shoes = MarkSold(db.shoes, b.sp),
             !.orders = Append(db.orders, NewOrder(b.od, t))]

\* The document handed to writeFileSync.
UpdatedDb(db, b, t) ==
  [db EXCEPT !.shoes = MarkSold(db.shoes, b.sp),
             !.hasOrders = TRUE,
             !.orders = Append(db.orders, NewOrder(b.od, t))]

\* The storage faults of one persist step: the read fails, the file cannot
\* be opened for writing, or the write fails after the file was truncated.
Faults == {"none", "read", "writeOpen", "writeTorn"}

\* AfterMail without the inner catch: a rejected mail reaches the outer catch.
AfterMailRethrows(outcome) == IF outcome = "failed" THEN "error" ELSE "persist"

\* The catch around the mail block swallows emailError: whatever the
\* outcome, the handler goes on to the database update.
AfterMail(outcome) == "persist"

\* ResponseStatus as if the success response were sent whatever the write did.
ResponseStatusAlwaysOk(persisted) == 200

\* res.json(...) after the write, res.status(500) in the outer catch
ResponseStatus(persisted) == IF persisted THEN 200 ELSE 500

\* WriteFile as if shoes and orders were saved by two writes and the second
\* one failed: the marks reach the file, the order does not.
WriteFileShoesFirst(f, doc, flt) ==
  IF flt = "writeOpen" THEN f
  ELSE IF flt = "writeTorn" THEN [doc EXCEPT !.hasOrders = f.hasOrders, !.orders = f.orders]
  ELSE doc

\* ResponseOrderId answering with a new Date.now() instead of the order's id.
ResponseOrderIdStamped(o) == <<now>>

\* orderId: newOrder.id in the 200 response
ResponseOrderId(o) == o.id

\* The values of process.env.NODE_ENV, which the handler reads only when it
\* builds a 500 response: production, development, or not set.
Modes == {"production", "development", "unset"}

\* error: process.env.NODE_ENV === 'production' ? {} : error.message
\* (the error key of a 500 response: an empty object or the message)
ErrorDetail(mode) == IF mode = "production" THEN "empty" ELSE "message"

\* fs.writeFileSync(dbPath, text): the file after the call
WriteFile(f, doc, flt) ==
  IF flt = "writeOpen" THEN f ELSE IF flt = "writeTorn" THEN Corrupt ELSE doc

\* The last step was no handler or router step.
NoEv ==
  [r |-> 0, kind |-> "none", body |-> NoBody, mail |-> "none", fault |-> "none",
   before |-> Corrupt, wrote |-> FALSE, written |-> Corrupt,
   env |-> "unread", detail |-> "absent"]

\* Lines 149-189: read, update, write, respond; one synchronous stretch.
Persist(r, b, m, flt) ==
  LET db == ReadStore(file)
      readOK == flt # "read" /\ db.parsable
      updOK == readOK /\ db.hasShoes
      nd == UpdatedDb(db, b, now)
      wrOK == updOK /\ flt \notin {"writeOpen", "writeTorn"}
      torn == updOK /\ flt = "writeTorn"
      step == [r |-> r, kind |-> "persist", body |-> b, mail |-> m,
               fault |-> flt, before |-> file, wrote |-> updOK,
               written |-> IF updOK THEN nd ELSE Corrupt,
               env |-> "unread", detail |-> "absent"]
  IN  /\ IF wrOK
         THEN ev' = step
         ELSE \E mode \in Modes :
                 ev' = [step EXCEPT !.env = mode, !.detail = ErrorDetail(mode)]
      /\ writes' = [writes EXCEPT ![r] = IF updOK THEN @ + 1 ELSE @]
      /\ file' = IF updOK THEN WriteFile(file, nd, flt) ELSE file
      /\ clobbered' = IF torn THEN clobbered \cup {q \in Requests : status[q] = 200}
                      ELSE clobbered
      /\ status' = [status EXCEPT ![r] = ResponseStatus(wrOK)]
      /\ respId' = [respId EXCEPT ![r] = IF wrOK THEN ResponseOrderId(NewOrder(b.od, now)) ELSE <<>>]
      /\ responses' = [responses EXCEPT ![r] = @ + 1]
      /\ pc' = [pc EXCEPT ![r] = "done"]
      /\ body' = [body EXCEPT ![r] = NoBody]

\* Lines 81-142: a request arrives, is validated, and the mail is built and
\* handed to the transporter.
Receive(b, flt) ==
  /\ nreq < MaxReq
  /\ LET r == nreq + 1 IN
     /\ nreq' = r
     /\ IF ~Valid(b)
        THEN /\ status' = [status EXCEPT ![r] = 400]
             /\ responses' = [responses EXCEPT ![r] = @ + 1]
             /\ pc' = [pc EXCEPT ![r] = "done"]
             /\ trace' = [trace EXCEPT ![r] = <<"Received", "Responded">>]
             /\ ev' = [NoEv EXCEPT !.r = r, !.kind = "reject", !.body = b,
                                   !.before = file]
             /\ UNCHANGED <<file, body, mail, mailCalls, respId, writes, clobbered>>
        ELSE IF BuildFails(b.od)
        THEN /\ mail' = [mail EXCEPT ![r] = "notbuilt"]
             /\ trace' = [trace EXCEPT ![r] =
                  <<"Received", "Validated", "Notified", "Persisted", "Responded">>]
             /\ Persist(r, b, "notbuilt", flt)
             /\ UNCHANGED mailCalls
        ELSE /\ mail' = [mail EXCEPT ![r] = "pending"]
             /\ mailCalls' = [mailCalls EXCEPT ![r] = @ + 1]
             /\ pc' = [pc EXCEPT ![r] = "awaitMail"]
             /\ body' = [body EXCEPT ![r] = b]
             /\ trace' = [trace EXCEPT ![r] = <<"Received", "Validated">>]
             /\ ev' = [NoEv EXCEPT !.r = r, !.kind = "await", !.body = b,
                                   !.mail = "pending", !.before = file]
             /\ UNCHANGED <<file, status, respId, responses, writes, clobbered>>
  /\ UNCHANGED <<now, routerDb>>

\* Lines 142-189: the sendMail promise settles (resolved or rejected) and
\* the handler resumes.
Resume(r, outcome, flt) ==
  /\ pc[r] = "awaitMail"
  /\ mail[r] = "pending"
  /\ mail' = [mail EXCEPT ![r] = outcome]
  /\ IF AfterMail(outcome) = "persist"
     THEN /\ trace' = [trace EXCEPT ![r] = @ \o <<"Notified", "Persisted", "Responded">>]
          /\ Persist(r, body[r], outcome, flt)
     ELSE /\ trace' = [trace EXCEPT ![r] = @ \o <<"Notified", "Responded">>]
          /\ status' = [status EXCEPT ![r] = 500]
          /\ responses' = [responses EXCEPT ![r] = @ + 1]
          /\ pc' = [pc EXCEPT ![r] = "done"]
          /\ body' = [body EXCEPT ![r] = NoBody]
          /\ \E mode \in Modes :
                ev' = [NoEv EXCEPT !.r = r, !.kind = "mailError", !.body = body[r],
                                   !.mail = outcome, !.before = file,
                                   !.env = mode, !.detail = ErrorDetail(mode)]
          /\ UNCHANGED <<file, respId, writes, clobbered>>
  /\ UNCHANGED <<now, routerDb, nreq, mailCalls>>

\* The transporter never settles the promise: the handler has no timeout
\* of its own around `await transporter.sendMail`.
MailHang(r) ==
  /\ pc[r] = "awaitMail"
  /\ mail[r] = "pending"
  /\ mail' = [mail EXCEPT ![r] = "hung"]
  /\ ev' = NoEv
  /\ UNCHANGED <<now, file, routerDb, nreq, body, pc, status, respId,
                 responses, mailCalls, writes, trace, clobbered>>

\* ------------------------------------------------------------- router
\* RouterPatch as if the router reloaded db.json before every change.
RouterPatchReloads(i) ==
  /\ file.parsable /\ file.hasShoes
  /\ i \in 1..Len(file.shoes)
  /\ routerDb' = [file EXCEPT !.shoes[i].isSoldOut = "false", !.shoes[i].name = "n1"]
  /\ file' = routerDb'
  /\ clobbered' = clobbered
  /\ ev' = [NoEv EXCEPT !.kind = "router", !.before = file]
  /\ UNCHANGED <<now, nreq, body, pc, mail, status, respId, responses,
                 mailCalls, writes, trace>>

\* PATCH /api/shoes/:id {isSoldOut: false, name: "n1"} through
\* jsonServer.router('./db.json'): the router changes its in-memory document,
\* loaded when the router was created, and writes the whole of it over db.json.
RouterPatch(i) ==
  /\ routerDb.hasShoes
  /\ i \in 1..Len(routerDb.shoes)
  /\ routerDb' = [routerDb EXCEPT !.shoes[i].isSoldOut = "false", !.shoes[i].name = "n1"]
  /\ file' = routerDb'
  /\ clobbered' = clobbered \cup {q \in Requests : status[q] = 200}
  /\ ev' = [NoEv EXCEPT !.kind = "router", !.before = file]
  /\ UNCHANGED <<now, nreq, body, pc, mail, status, respId, responses,
                 mailCalls, writes, trace>>

\* ------------------------------------------------------------- clock
Tick ==
  /\ now < MaxClock
  /\ now' = now + 1
  /\ ev' = NoEv
  /\ UNCHANGED <<file, routerDb, nreq, body, pc, mail, status, respId,
                 responses, mailCalls, writes, trace, clobbered>>

\* ------------------------------------------------------------- specification
\* The catalogue db.json holds when the server starts.
InitShoes ==
  [i \in ProductIds |-> Product(i, SoldFlags[((i - 1) % 3) + 1], "n0")]

\* The documents db.json may hold when the server starts.  The router
\* parses the file at start-up, so it is parsable then.
InitDocs ==
  { Doc(TRUE, InitShoes, TRUE, <<>>),
    Doc(TRUE, InitShoes, FALSE, <<>>),
    Doc(FALSE, <<>>, TRUE, <<>>) }

Init ==
  /\ now = 1
  /\ file \in InitDocs
  /\ routerDb = file
  /\ nreq = 0
  /\ body = [r \in Requests |-> NoBody]
  /\ pc = [r \in Requests |-> "new"]
  /\ mail = [r \in Requests |-> "none"]
  /\ status = [r \in Requests |-> 0]
  /\ respId = [r \in Requests |-> <<>>]
  /\ responses = [r \in Requests |-> 0]
  /\ mailCalls = [r \in Requests |-> 0]
  /\ writes = [r \in Requests |-> 0]
  /\ trace = [r \in Requests |-> <<>>]
  /\ clobbered = {}
  /\ ev = NoEv

Next ==
  \/ \E b \in Bodies, flt \in Faults : Receive(b, flt)
  \/ \E r \in Requests, o \in {"ok", "failed"}, flt \in Faults : Resume(r, o, flt)
  \/ \E r \in Requests : MailHang(r)
  \/ \E i \in ProductIds : RouterPatch(i)
  \/ Tick

Spec == Init /\ [][Next]_vars

\* The event loop runs every callback that is ready: a request that can be
\* received is received, and a handler whose mail promise settles resumes.
\* The transporter is outside the program: a pending promise is either
\* settled (Resume) or left unsettled for ever (MailHang).
FairSpec ==
  /\ Spec
  /\ WF_vars(\E b \in Bodies, flt \in Faults : Receive(b, flt))
  /\ \A r \in Requests :
       WF_vars(\E o \in {"ok", "failed"}, flt \in Faults : Resume(r, o, flt))

\* ------------------------------------------------------------- properties
\* The orders of the document on disk (none when it does not parse).
StoredOrders == IF file.parsable THEN file.orders ELSE <<>>

\* The store holds an order with this id.
Stored(id) == \E i \in 1..Len(StoredOrders) : StoredOrders[i].id = id

\* The persist step just taken met no storage failure.
StorageWorked ==
  /\ ev.fault = "none"
  /\ ev.before.parsable
  /\ ev.before.hasShoes

\* C1: no two orders of the store have the same id, and no two 200
\* responses carry the same orderId.
C1_UniqueOrderIds ==
  /\ \A i, j \in 1..Len(StoredOrders) :
       i # j => StoredOrders[i].id # StoredOrders[j].id
  /\ \A r, q \in Requests :
       (r # q /\ status[r] = 200 /\ status[q] = 200) => respId[r] # respId[q]

\* C2: a submission without orderDetails or without soldProducts is answered
\* 400, leaves db.json as it was, calls neither sendMail nor writeFileSync,
\* and gets no order id.
C2_RejectNoSideEffects ==
  (ev.kind \in {"reject", "await", "persist"} /\ ~(ev.body.hasOD /\ ev.body.hasSP)) =>
     /\ ev.kind = "reject"
     /\ status[ev.r] = 400
     /\ file = ev.before
     /\ mail[ev.r] = "none"
     /\ mailCalls[ev.r] = 0
     /\ writes[ev.r] = 0
     /\ respId[ev.r] = <<>>
     /\ responses[ev.r] = 1

C2_Witness ==
  /\ ev.kind = "reject"
  /\ ev.body.hasOD
  /\ ~ev.body.hasSP
  /\ status[ev.r] = 400
  /\ Len(StoredOrders) = 1

\* C3: when sendMail rejects and the storage works, the request is answered
\* 200 with an order id and its order is the last of the store; a rejected
\* mail never ends the request by itself.
C3_MailFailureIsolated ==
  /\ \A r \in Requests : mail[r] = "failed" => "Persisted" \in {trace[r][k] : k \in 1..Len(trace[r])}
  /\ (ev.kind = "persist" /\ ev.mail = "failed" /\ StorageWorked) =>
        /\ status[ev.r] = 200
        /\ respId[ev.r] # <<>>
        /\ file.parsable
        /\ Len(file.orders) = Len(ev.before.orders) + 1
        /\ file.orders[Len(file.orders)].id = respId[ev.r]
        /\ file.orders[Len(file.orders)].name = ev.body.od.name

C3_Witness ==
  /\ ev.kind = "persist"
  /\ ev.mail = "failed"
  /\ mailCalls[ev.r] = 1
  /\ status[ev.r] = 200
  /\ Stored(respId[ev.r])

\* C4: after a successful submission every product listed in soldProducts
\* has isSoldOut true, every other product has the isSoldOut it had, and
\* the products' ids and other fields are as they were.
C4_SoldMarks ==
  (ev.kind = "persist" /\ status[ev.r] = 200) =>
     /\ file.parsable /\ file.hasShoes
     /\ Len(file.shoes) = Len(ev.before.shoes)
     /\ \A i \in 1..Len(file.shoes) :
          /\ file.shoes[i].id = ev.before.shoes[i].id
          /\ file.shoes[i].name = ev.before.shoes[i].name
          /\ file.shoes[i].isSoldOut =
               IF ev.before.shoes[i].id \in ev.body.sp
               THEN "true" ELSE ev.before.shoes[i].isSoldOut

C4_Witness ==
  /\ ev.kind = "persist"
  /\ status[ev.r] = 200
  /\ \E i, j \in 1..Len(ev.before.shoes) :
       /\ ev.before.shoes[i].id \in ev.body.sp
       /\ ev.before.shoes[i].isSoldOut = "false"
       /\ file.shoes[i].isSoldOut = "true"
       /\ ev.before.shoes[j].id \notin ev.body.sp
       /\ ev.before.shoes[j].isSoldOut = "true"
       /\ file.shoes[j].isSoldOut = "true"

\* C5: a request whose persist step fails is answered 500 and leaves the
\* store exactly as it was before the request.
C5_FailedPersistLeavesStore ==
  (ev.kind = "persist" /\ ~StorageWorked) =>
     /\ status[ev.r] = 500
     /\ file = ev.before

\* The requests answered 200 so far.
Answered200 == {r \in Requests : status[r] = 200}

C8_ValidatedEventuallyResponds ==
  \A r \in Requests : (pc[r] = "awaitMail") ~> (pc[r] = "done")

\* C9: the store is read only after the mail attempt ended; when the mail
\* was sent and the persist step then fails, the request is answered 500
\* without an order id, the mail stays sent and the store gains no order.
C9_NotifyThenPersistNoRollback ==
  /\ ev.kind = "persist" => ev.mail \in {"ok", "failed", "notbuilt"}
  /\ (ev.kind = "persist" /\ ev.mail = "ok" /\ ~StorageWorked) =>
        /\ status[ev.r] = 500
        /\ respId[ev.r] = <<>>
        /\ mail[ev.r] = "ok"
        /\ mailCalls[ev.r] = 1
        /\ StoredOrders \in {ev.before.orders, <<>>}

C9_Witness ==
  /\ ev.kind = "persist"
  /\ ev.mail = "ok"
  /\ ev.fault = "writeOpen"
  /\ ev.wrote
  /\ status[ev.r] = 500
  /\ mailCalls[ev.r] = 1
  /\ file = ev.before

\* The order of the phases of a request.
Rank(p) ==
  CASE p = "Received" -> 1 [] p = "Validated" -> 2 [] p = "Notified" -> 3
    [] p = "Persisted" -> 4 [] p = "Responded" -> 5

C12_FreshIdAndDate ==
  (ev.kind = "persist" /\ status[ev.r] = 200) =>
     LET o == file.orders[Len(file.orders)] IN
       /\ o.id = <<now>>
       /\ o.orderDate = [iso |-> now]
       /\ o.name = ev.body.od.name
       /\ o.hasItems = ev.body.od.hasItems

\* C13: a submission answered 200 adds exactly one order at the end of the
\* orders collection and leaves the earlier orders as they were, in place;
\* a submission answered 400 or 500 leaves the orders of the store as they were.
C13_OrdersAppendOnly ==
  (ev.kind \in {"reject", "persist"}) =>
     IF status[ev.r] = 200
     THEN /\ Len(StoredOrders) = Len(ev.before.orders) + 1
          /\ \A k \in 1..Len(ev.before.orders) : StoredOrders[k] = ev.before.orders[k]
     ELSE StoredOrders = ev.before.orders

\* C14: no step of the handler turns a product's isSoldOut from true to
\* anything else, and a product's isSoldOut differs after a handler step only
\* if the step is a persist step answered 200 whose soldProducts lists the
\* product, and then it is true.
C14_SoldOutMonotonic ==
  (ev.kind \in {"reject", "await", "persist"} /\ file.parsable /\ file.hasShoes) =>
     /\ ev.before.parsable /\ ev.before.hasShoes
     /\ Len(file.shoes) = Len(ev.before.shoes)
     /\ \A i \in 1..Len(file.shoes) :
          /\ file.shoes[i].id = ev.before.shoes[i].id
          /\ ev.before.shoes[i].isSoldOut = "true" => file.shoes[i].isSoldOut = "true"
          /\ file.shoes[i].isSoldOut # ev.before.shoes[i].isSoldOut =>
               /\ file.shoes[i].isSoldOut = "true"
               /\ ev.kind = "persist"
               /\ status[ev.r] = 200
               /\ ev.before.shoes[i].id \in ev.body.sp

\* One listed product was already sold out and stays so; another becomes so.
C14_Witness ==
  /\ ev.kind = "persist"
  /\ status[ev.r] = 200
  /\ \E i, j \in 1..Len(file.shoes) :
       /\ {ev.before.shoes[i].id, ev.before.shoes[j].id} \subseteq ev.body.sp
       /\ ev.before.shoes[i].isSoldOut = "true"
       /\ file.shoes[i].isSoldOut = "true"
       /\ ev.before.shoes[j].isSoldOut # "true"
       /\ file.shoes[j].isSoldOut = "true"

\* C15: a valid submission whose soldProducts lists an id of no product is,
\* when the storage works, answered 200; its order is appended, the store has
\* the same products as before (none is created), and each of them is marked
\* if listed and keeps its isSoldOut otherwise.
C15_UnknownIdsIgnored ==
  (/\ ev.kind = "persist"
   /\ StorageWorked
   /\ ev.body.sp \ {ev.before.shoes[i].id : i \in 1..Len(ev.before.shoes)} # {}) =>
     /\ status[ev.r] = 200
     /\ file.parsable /\ file.hasShoes
     /\ Len(file.shoes) = Len(ev.before.shoes)
     /\ \A i \in 1..Len(ev.before.shoes) :
          /\ file.shoes[i].id = ev.before.shoes[i].id
          /\ file.shoes[i].isSoldOut =
               IF ev.before.shoes[i].id \in ev.body.sp
               THEN "true" ELSE ev.before.shoes[i].isSoldOut
     /\ Len(file.orders) = Len(ev.before.orders) + 1
     /\ file.orders[Len(file.orders)].id = respId[ev.r]
     /\ file.orders[Len(file.orders)].name = ev.body.od.name

\* soldProducts lists a product on sale and an unknown id.
C15_Witness ==
  /\ ev.kind = "persist"
  /\ status[ev.r] = 200
  /\ ev.body.sp = {1, NumProducts + 1}
  /\ Len(file.shoes) = NumProducts
  /\ ev.before.shoes[1].isSoldOut = "false"
  /\ file.shoes[1].isSoldOut = "true"
  /\ Len(file.orders) = Len(ev.before.orders) + 1

\* C16: a 500 response of the handler carries the error message only when
\* NODE_ENV is development; in every other mode it carries no detail.
C16_DetailOnlyInDevelopment ==
  (ev.kind = "persist" /\ status[ev.r] = 500) =>
     (ev.detail = "message" <=> ev.env = "development")

\* C17: every 200 response carries an orderId, and it is the id of the order
\* which that request appended to the store in its write; no other response
\* carries one.
C17_OrderIdIsStoredId ==
  /\ \A r \in Requests : status[r] = 200 <=> respId[r] # <<>>
  /\ (ev.kind = "persist" /\ status[ev.r] = 200) =>
        /\ ev.wrote
        /\ file = ev.written
        /\ Len(file.orders) = Len(ev.before.orders) + 1
        /\ respId[ev.r] = file.orders[Len(file.orders)].id

\* A 200 whose orderId is the id the client sent, not the clock's.
C17_Witness ==
  /\ ev.kind = "persist"
  /\ status[ev.r] = 200
  /\ ev.body.od.id = <<1>>
  /\ now = 2
  /\ respId[ev.r] = <<1>>
  /\ file.orders[Len(file.orders)].id = <<1>>

\* C18: a submission whose orderDetails has no items fails while the message is
\* built, inside the guarded block: sendMail is never called for it, the request
\* still goes on to persist, and with the storage working it is answered 200
\* with its order stored.
C18_BuildFailureSkipsMail ==
  (ev.kind = "persist" /\ ~ev.body.od.hasItems) =>
        /\ ev.mail = "notbuilt"
        /\ mailCalls[ev.r] = 0
        /\ pc[ev.r] = "done"
        /\ status[ev.r] \in {200, 500}
        /\ StorageWorked =>
              /\ status[ev.r] = 200
              /\ ev.wrote
              /\ file.orders = Append(ev.before.orders, NewOrder(ev.body.od, now))

\* A 200 with the order stored and no call of sendMail.
C18_Witness ==
  /\ ev.kind = "persist"
  /\ ~ev.body.od.hasItems
  /\ status[ev.r] = 200
  /\ mailCalls[ev.r] = 0
  /\ ev.mail = "notbuilt"
  /\ Len(file.orders) = Len(ev.before.orders) + 1

\* C19: with a store that has products but no orders collection, a successful
\* submission creates the orders collection holding exactly the new order; with
\* a store that has no product collection the submission is answered 500, the
\* store is left as it was, and the mail block has already run (sendMail was
\* called whenever the message could be built).
C19_MissingCollections ==
  /\ (ev.kind = "persist" /\ StorageWorked /\ ~ev.before.hasOrders) =>
        /\ status[ev.r] = 200
        /\ file.parsable
        /\ file.hasOrders
        /\ file.orders = <<NewOrder(ev.body.od, now)>>
  /\ (ev.kind = "persist" /\ ev.fault = "none" /\ ev.before.parsable
        /\ ~ev.before.hasShoes) =>
        /\ status[ev.r] = 500
        /\ ~ev.wrote
        /\ file = ev.before
        /\ ev.mail \in {"ok", "failed", "notbuilt"}
        /\ ev.body.od.hasItems => (ev.mail # "notbuilt" /\ mailCalls[ev.r] = 1)

\* A 200 on a store that had no orders collection, which now has one order.
C19_Witness ==
  /\ ev.kind = "persist"
  /\ ~ev.before.hasOrders
  /\ ev.before.hasShoes
  /\ status[ev.r] = 200
  /\ file.hasOrders
  /\ Len(file.orders) = 1

====
